---- MODULE Spec2Model ----
(***************************************************************************)
(* Reconnection / version-rotation state machine and activity timers of    *)
(* the main script (src/index.js lines 37-515).                            *)
(*                                                                         *)
(* The script is single-threaded and event driven.  One action of the      *)
(* model is one callback run to completion by the event loop: a peer event *)
(* delivered to the live client, a timer firing, or a process signal.      *)
(* Functions of the script are operators from a state record to a state    *)
(* record, composed the way the code calls them.                           *)
(*                                                                         *)
(* Timers: setTimeout/setInterval hand out a token and put it in the event *)
(* loop (pending); the script's variables hold a token or null.  A token   *)
(* that is overwritten without being cleared stays pending (a leak).       *)
(*                                                                         *)
(* A message text is modelled by the set of the marker substrings it       *)
(* contains (lower-cased), so String.includes is set membership.           *)
(*                                                                         *)
(* Coordinates are held on a grid of 1/PosScale block, on which the step   *)
(* lengths of the patrol (0.8, 1 and 2 blocks) are whole numbers; headings *)
(* are whole degrees at multiples of 90, where sine and cosine are exact.  *)
(* The walk back to the anchor divides by the distance: it is defined      *)
(* where that division is exact on the grid, which covers every walk back  *)
(* the specifications reach.                                               *)
(*                                                                         *)
(* Spec explores the session and retry machinery over all configurations   *)
(* with the patrol held at its anchor; SpecPatrol explores the patrol      *)
(* geometry under one retry configuration; SpecTimers is Spec under one    *)
(* configuration with both ends of every random delay; SpecStartup is the  *)
(* configuration load over environments; SpecInterval is the interval      *)
(* variant of the script (src/index.js lines 517-892); SpecSingle is the   *)
(* single-version variant src/unnamed/part_001.                            *)
(***************************************************************************)
EXTENDS Integers, Sequences, FiniteSets, TLC

VARIABLES
    client,            \* handle of the live protocol client, NoClient when null
    listeners,         \* handles that still have the script's handlers attached
    rid,               \* runtime id the live client reports (NoRid while unknown)
    keepAliveTimer,
    reconnectTimer,
    patrolStepTimer,
    patrolTurnTimer,
    chatTimer,
    pending,           \* timer tokens armed in the event loop
    tryingIndex,
    reconnectAttempts,
    proc,              \* "running" | "exited"
    exitCode,
    MC_VERSIONS,       \* configuration, fixed after start
    RECONNECT_MODE,
    RECONNECT_DELAY_MS,
    scheduled,         \* the retry scheduleReconnect logged last since the counter was reset (observation only)
    pos,               \* last position and heading sent (grid units, degrees)
    spawnPos,          \* the anchor, NoPos while null
    startGameData,     \* position in the live client's startGameData, NoPos when it has none
    MAX_PATROL_DISTANCE, \* configuration: patrol radius in grid units
    sent,              \* packets the last callback handed to client.queue (observation only)
    scope,             \* which family of peer and random inputs the run draws from
    env,               \* the environment the script was started with
    MC_HOST,           \* configuration: host after trim
    MC_PORT,           \* configuration: port as Number() read it
    connecting,        \* part_001: a connection attempt is under way
    attemptVersion,    \* version logged by the latest connection attempt
    rejectedVersion,   \* version of the attempt a rotation gave up on
    attemptsBefore,    \* reconnectAttempts when the last callback began (observation only)
    lastEvent          \* the callback that ran last (observation only)

vars == <<client, listeners, rid, keepAliveTimer, reconnectTimer, patrolStepTimer,
          patrolTurnTimer, chatTimer, pending, tryingIndex, reconnectAttempts,
          proc, exitCode, MC_VERSIONS, RECONNECT_MODE, RECONNECT_DELAY_MS,
          scheduled,
          pos,
          spawnPos,
          startGameData,
          MAX_PATROL_DISTANCE,
          sent,
          scope,
          env,
          MC_HOST,
          MC_PORT,
          connecting,
          attemptVersion, rejectedVersion, attemptsBefore, lastEvent>>

(* ------------------------------ bounds -------------------------------- *)
\* retries explored from a fresh counter before the model stops failing
MaxAttempts == 2
\* how far below the cap the second family of start states begins
NearCap == 1
\* longest candidate list
MaxVersions == 2
\* timer tokens the event loop may hold
MaxPending == 8

(* --------------------------- program constants ------------------------ *)
AttemptCap == 1000
AttemptStepMs == 5000
DelayCapMs == 300000
RotateShortDelayMs == 1000
DefaultReconnectDelayMs == 60000

(* ------------------------------ values -------------------------------- *)
NoClient == 0
NoRid == -1
\* a raw id BigInt() cannot convert (a non-numeric string)
BadRid == -2
NoVersion == "undefined"
NoTimer == [kind |-> "none", id |-> 0, owner |-> 0, delay |-> 0]
\* nothing logged by scheduleReconnect yet
NoSchedule == [delay |-> 0, attempt |-> 0, rotated |-> FALSE]

Markers == {"timed out", "ping timed out", "outdated_client", "outdated_server",
            "unsupported", "unsupported protocol", "unsupported version"}

\* texts a failure can carry: the marker substrings each one contains
Messages == { {},
              {"timed out"},
              {"outdated_server"},
              {"unsupported"},
              {"timed out", "outdated_server"} }

Includes(msg, needle) == needle \in msg

Candidates == {"A", "B"}
VersionLists == UNION { [1..n -> Candidates] : n \in 1..MaxVersions }
Modes == {"retry", "exit"}
BaseDelays == {DefaultReconnectDelayMs, 290000, 400000}
RidValues == {0, 1, BadRid}

Min(a, b) == IF a <= b THEN a ELSE b

(* ------------------------------ positions ------------------------------ *)
\* grid units per block
PosScale == 5
\* 0.8 block, 1 block, 2 blocks
WalkBackLen == 4
StepLens == {PosScale, 2 * PosScale}
\* farthest coordinate offset the walk back is computed for
MaxReach == 8 * PosScale

Place(x, y, z) == [x |-> x, y |-> y, z |-> z]
\* spawnPos = null, and a start_game packet without a usable position
NoPos == Place(0, -1, 0)
DefaultPos == [x |-> 0, y |-> 64 * PosScale, z |-> 0, pitch |-> 0, yaw |-> 0]
\* { x: pos.x, y: pos.y, z: pos.z }
Xyz(q) == Place(q.x, q.y, q.z)

\* positions the peer reports in start_game (patrol scope): two places ten
\* units apart on one axis, a third ten units above the first, or none
NearSeed == Place(2 * PosScale, 64 * PosScale, 0)
FarSeed == Place(4 * PosScale, 64 * PosScale, 0)
HighSeed == Place(2 * PosScale, 66 * PosScale, 0)
PatrolSeeds == {NoPos, NearSeed, FarSeed, HighSeed}
\* a and b differ along at most one axis, where dist3 is a whole number
OnAxis(a, b) == Cardinality({ f \in {"x", "y", "z"} : a[f] # b[f] }) <= 1
\* patrol radius of the patrol scope: one block
PatrolRadius == PosScale

\* dist3 squared
DistSq(a, b) == (a.x - b.x) * (a.x - b.x) + (a.y - b.y) * (a.y - b.y)
                  + (a.z - b.z) * (a.z - b.z)
\* dist3 where the square root is a whole number of grid units
dist3(a, b) == CHOOSE n \in 0..(2 * MaxReach) : n * n = DistSq(a, b)
\* a / b where b divides a
Quot(a, b) == CHOOSE q \in (-MaxReach)..MaxReach : q * b = a

\* Math.sin / Math.cos of a heading in degrees, at multiples of 90
Sin(deg) == CASE deg % 360 = 0 -> 0 [] deg % 360 = 90 -> 1
              [] deg % 360 = 180 -> 0 [] deg % 360 = 270 -> -1
Cos(deg) == CASE deg % 360 = 0 -> 1 [] deg % 360 = 90 -> 0
              [] deg % 360 = 180 -> -1 [] deg % 360 = 270 -> 0
\* Math.atan2(a, b) * (180 / Math.PI) for a vector along an axis (or zero)
Atan2Deg(a, b) == CASE a = 0 /\ b >= 0 -> 0
                    [] a > 0 /\ b = 0 -> 90
                    [] a < 0 /\ b = 0 -> -90
                    [] a = 0 /\ b < 0 -> 180

(* ------------------------------ events -------------------------------- *)
Ev(name, kind, text) == [name |-> name, kind |-> kind, text |-> text, during |-> "none"]

NoEvent == Ev("none", "none", {})

ErrorEvents == { Ev("error", "msg", m) : m \in Messages }
\* disconnect payloads: null/undefined, {reason: text}, an object without
\* reason, a bare string
DisconnectEvents == { Ev("disconnect", "null", {}), Ev("disconnect", "noreason", {}) }
                    \cup { Ev("disconnect", "reason", m) : m \in Messages }
                    \cup { Ev("disconnect", "string", m) : m \in {{}, {"outdated_server"}} }
TerminalEvents == ErrorEvents \cup DisconnectEvents
                  \cup { Ev("end", "none", {}), Ev("close", "none", {}) }
\* what the client may emit from inside a queue() call
SyncEvents == { NoEvent, Ev("error", "msg", {}), Ev("error", "msg", {"outdated_server"}),
                Ev("disconnect", "null", {}), Ev("close", "none", {}) }
TerminalNames == {"error", "disconnect", "end", "close"}

\* what bedrock.createClient does: it returns a client, or throws an error
\* with a text
Returns == [throws |-> FALSE, text |-> {}]
Throws(m) == [throws |-> TRUE, text |-> m]
ThrownMessages == { {"timed out"}, {"outdated_server"} }
CreateOutcomes == {Returns} \cup { Throws(m) : m \in ThrownMessages }

(* ------------------------------ timers -------------------------------- *)
\* sequencing: the value of v, computed once, handed to the rest F
Let(v, F(_)) == CHOOSE r \in { F(w) : w \in {v} } : TRUE

(* --------------------------- configuration ----------------------------- *)
\* an environment variable that is not set
Unset == "undefined"
\* a JavaScript number: NaN, or whole + tenths / 10
NaN == [nan |-> TRUE, whole |-> 0, tenths |-> 0]
Num(whole, tenths) == [nan |-> FALSE, whole |-> whole, tenths |-> tenths]

\* String.prototype.trim on the texts the environment may hold
Trim(str) == CASE str = " " -> ""
               [] str = " h " -> "h"
               [] str = " B " -> "B"
               [] OTHER -> str

\* Number(str) on the texts the environment may hold: blank text is 0, text
\* that is no numeral is NaN
NumberOf(str) == CASE str = "" -> Num(0, 0)
                   [] str = " " -> Num(0, 0)
                   [] str = "0" -> Num(0, 0)
                   [] str = "-1" -> Num(-1, 0)
                   [] str = "1.5" -> Num(1, 5)
                   [] str = "19132" -> Num(19132, 0)
                   [] OTHER -> NaN

\* JavaScript falsiness of process.env.X: not set, or the empty text
Falsy(str) == str = Unset \/ str = ""

\* the default of MC_VERSIONS, split at its commas
DefaultVersions == <<"1.21.131", "1.21.124", "1.21.100">>

\* what the environment may hold.  MC_VERSIONS is held split at its commas:
\* <<>> is a variable that is not set, <<"">> the empty text
EnvHosts == {Unset, "", " ", "h", " h "}
EnvPorts == {Unset, "", " ", "0", "-1", "1.5", "abc", "19132"}
EnvPieces == {"", "A", " B "}
EnvVersions == {<<>>} \cup UNION { [1..n -> EnvPieces] : n \in 1..MaxVersions }
Envs == [MC_HOST : EnvHosts, MC_PORT : EnvPorts, MC_VERSIONS : EnvVersions]

\* the environment of a run whose candidate list is versions
RunEnv(versions) == [MC_HOST |-> "h", MC_PORT |-> "19132", MC_VERSIONS |-> versions]

\* (process.env.MC_HOST || '').trim()
HostFromEnv(e) == Trim(IF Falsy(e.MC_HOST) THEN "" ELSE e.MC_HOST)

\* process.env.MC_PORT ? Number(process.env.MC_PORT) : NaN
PortFromEnv(e) == IF Falsy(e.MC_PORT) THEN NaN ELSE NumberOf(e.MC_PORT)

\* (process.env.MC_VERSIONS || default).split(',').map(trim).filter(Boolean)
VersionsFromEnv(e) ==
    Let(IF e.MC_VERSIONS = <<>> \/ e.MC_VERSIONS = <<"">> THEN DefaultVersions
        ELSE e.MC_VERSIONS, LAMBDA pieces :
        SelectSeq([i \in DOMAIN pieces |-> Trim(pieces[i])], LAMBDA v : v # ""))

(* ------------------------------ state --------------------------------- *)
Cur == [client |-> client, listeners |-> listeners, rid |-> rid,
        keepAliveTimer |-> keepAliveTimer, reconnectTimer |-> reconnectTimer,
        patrolStepTimer |-> patrolStepTimer, patrolTurnTimer |-> patrolTurnTimer,
        chatTimer |-> chatTimer, pending |-> pending,
        tryingIndex |-> tryingIndex, reconnectAttempts |-> reconnectAttempts,
        proc |-> proc, exitCode |-> exitCode,
        MC_VERSIONS |-> MC_VERSIONS, RECONNECT_MODE |-> RECONNECT_MODE,
        RECONNECT_DELAY_MS |-> RECONNECT_DELAY_MS,
        scheduled |-> scheduled,
        pos |-> pos,
        spawnPos |-> spawnPos,
        startGameData |-> startGameData,
        MAX_PATROL_DISTANCE |-> MAX_PATROL_DISTANCE,
        sent |-> sent,
        scope |-> scope,
        env |-> env,
        MC_HOST |-> MC_HOST,
        MC_PORT |-> MC_PORT,
        connecting |-> connecting,
        attemptVersion |-> attemptVersion, rejectedVersion |-> rejectedVersion,
        attemptsBefore |-> attemptsBefore, lastEvent |-> lastEvent]

\* module-level declarations before the first connection attempt
Boot(versions, mode, delay) ==
    [client |-> NoClient, listeners |-> {}, rid |-> NoRid,
     keepAliveTimer |-> NoTimer, reconnectTimer |-> NoTimer,
     patrolStepTimer |-> NoTimer, patrolTurnTimer |-> NoTimer,
     chatTimer |-> NoTimer, pending |-> {},
     tryingIndex |-> 0, reconnectAttempts |-> 0,
     proc |-> "running", exitCode |-> -1,
     MC_VERSIONS |-> VersionsFromEnv(RunEnv(versions)), RECONNECT_MODE |-> mode,
     RECONNECT_DELAY_MS |-> delay,
     scheduled |-> NoSchedule,
     pos |-> DefaultPos,
     spawnPos |-> NoPos,
     startGameData |-> NoPos,
     MAX_PATROL_DISTANCE |-> 0,
     sent |-> {},
     scope |-> "session",
     env |-> RunEnv(versions),
     MC_HOST |-> HostFromEnv(RunEnv(versions)),
     MC_PORT |-> PortFromEnv(RunEnv(versions)),
     connecting |-> FALSE,
     attemptVersion |-> NoVersion, rejectedVersion |-> NoVersion,
     attemptsBefore |-> 0, lastEvent |-> Ev("start", "none", {})]

Smallest(S) == CHOOSE i \in S : \A j \in S : i <= j

FreshId(s, kind) ==
    Let({ t.id : t \in { u \in s.pending : u.kind = kind } }, LAMBDA used :
        Smallest((1..(Cardinality(used) + 1)) \ used))

\* setTimeout / setInterval: a new token, armed
NewTimer(s, kind, delay) ==
    [kind |-> kind, id |-> FreshId(s, kind), owner |-> s.client, delay |-> delay]

\* clearTimeout / clearInterval
ClearTimer(s, t) == [s EXCEPT !.pending = @ \ {t}]

\* safeClearTimeout that clears nothing
safeClearTimeout_Skips(s, t) == s

safeClearTimeout(s, t) == IF t # NoTimer THEN ClearTimer(s, t) ELSE s

(* ------------------------------ helpers ------------------------------- *)
currentVersion(s) ==
    IF s.tryingIndex + 1 \in DOMAIN s.MC_VERSIONS
    THEN s.MC_VERSIONS[s.tryingIndex + 1]
    ELSE IF Len(s.MC_VERSIONS) > 0 THEN s.MC_VERSIONS[1] ELSE NoVersion

stopHumanBehavior(s) ==
    [s EXCEPT !.pending = @ \ ({s.patrolStepTimer, s.patrolTurnTimer, s.chatTimer}
                                 \ {NoTimer}),
              !.patrolStepTimer = NoTimer,
              !.patrolTurnTimer = NoTimer,
              !.chatTimer = NoTimer]

\* safeCloseClient as the variant without a retry-timer clear would have it
safeCloseClient_KeepsRetryTimer(s) ==
    Let(stopHumanBehavior(s), LAMBDA s1 :
    Let(IF s1.keepAliveTimer # NoTimer
        THEN [s1 EXCEPT !.pending = @ \ {s1.keepAliveTimer}, !.keepAliveTimer = NoTimer]
        ELSE s1, LAMBDA s2 :
        IF s2.client # NoClient
        THEN [s2 EXCEPT !.listeners = @ \ {s2.client},
                        !.client = NoClient,
                        !.rid = NoRid,
                        !.startGameData = NoPos]
        ELSE s2))

safeCloseClient(s) ==
    Let(stopHumanBehavior(s), LAMBDA s1 :
    Let(IF s1.keepAliveTimer # NoTimer
        THEN [s1 EXCEPT !.pending = @ \ {s1.keepAliveTimer}, !.keepAliveTimer = NoTimer]
        ELSE s1, LAMBDA s2 :
    Let(IF s2.reconnectTimer # NoTimer
        THEN [s2 EXCEPT !.pending = @ \ {s2.reconnectTimer}, !.reconnectTimer = NoTimer]
        ELSE s2, LAMBDA s3 :
        IF s3.client # NoClient
        THEN [s3 EXCEPT !.listeners = @ \ {s3.client},
                        !.client = NoClient,
                        !.rid = NoRid,
                        !.startGameData = NoPos]
        ELSE s3)))

\* shutdown that exits without tearing the session down
shutdown_NoTeardown(s, code) ==
    [s EXCEPT !.proc = "exited", !.exitCode = code]

shutdown(s, code) ==
    Let(safeCloseClient(s), LAMBDA s1 :
        [s1 EXCEPT !.proc = "exited", !.exitCode = code])

\* process.on('uncaughtException')
uncaughtException(s) == shutdown(s, 1)

(* -------------------- reconnect / version rotation --------------------- *)
\* scheduleReconnect without its pending-timer guard
scheduleReconnect_NoGuard(s, delay) ==
    Let(Min(s.reconnectAttempts + 1, AttemptCap), LAMBDA attempts :
    Let(Min(delay + attempts * AttemptStepMs, DelayCapMs), LAMBDA dynamic :
    Let(NewTimer(s, "reconnect", dynamic), LAMBDA t :
        [s EXCEPT !.reconnectAttempts = attempts,
                  !.reconnectTimer = t,
                  !.pending = @ \cup {t},
                  !.scheduled = [delay |-> dynamic, attempt |-> attempts,
                                 rotated |-> FALSE]])))

\* scheduleReconnect with a delay that ignores the attempt counter
scheduleReconnect_NoBackoff(s, delay) ==
    IF s.reconnectTimer # NoTimer THEN s
    ELSE Let(Min(s.reconnectAttempts + 1, AttemptCap), LAMBDA attempts :
         Let(Min(delay, DelayCapMs), LAMBDA dynamic :
         Let(NewTimer(s, "reconnect", dynamic), LAMBDA t :
             [s EXCEPT !.reconnectAttempts = attempts,
                       !.reconnectTimer = t,
                       !.pending = @ \cup {t},
                       !.scheduled = [delay |-> dynamic, attempt |-> attempts,
                                      rotated |-> FALSE]])))

\* scheduleReconnect computing the delay from the counter before its increment
scheduleReconnect_StaleCounter(s, delay) ==
    IF s.reconnectTimer # NoTimer THEN s
    ELSE Let(Min(s.reconnectAttempts + 1, AttemptCap), LAMBDA attempts :
         Let(Min(delay + s.reconnectAttempts * AttemptStepMs, DelayCapMs), LAMBDA dynamic :
         Let(NewTimer(s, "reconnect", dynamic), LAMBDA t :
             [s EXCEPT !.reconnectAttempts = attempts,
                       !.reconnectTimer = t,
                       !.pending = @ \cup {t},
                       !.scheduled = [delay |-> dynamic, attempt |-> attempts,
                                      rotated |-> FALSE]])))

scheduleReconnect(s, delay) ==
    IF s.reconnectTimer # NoTimer THEN s
    ELSE Let(Min(s.reconnectAttempts + 1, AttemptCap), LAMBDA attempts :
         Let(Min(delay + attempts * AttemptStepMs, DelayCapMs), LAMBDA dynamic :
         Let(NewTimer(s, "reconnect", dynamic), LAMBDA t :
             [s EXCEPT !.reconnectAttempts = attempts,
                       !.reconnectTimer = t,
                       !.pending = @ \cup {t},
                       !.scheduled = [delay |-> dynamic, attempt |-> attempts,
                                      rotated |-> FALSE]])))

\* rotateVersionAndReconnect that advances the index and schedules nothing
rotateVersionAndReconnect_NoSchedule(s) ==
    Let((s.tryingIndex + 1) % Len(s.MC_VERSIONS), LAMBDA idx :
        [s EXCEPT !.tryingIndex = idx, !.rejectedVersion = s.attemptVersion])

\* rotateVersionAndReconnect that forgets to advance the index
rotateVersionAndReconnect_NoAdvance(s) ==
    Let(s.tryingIndex, LAMBDA idx :
    Let([s EXCEPT !.tryingIndex = idx, !.rejectedVersion = s.attemptVersion], LAMBDA s1 :
    Let(scheduleReconnect(s1, IF idx = 0 THEN s.RECONNECT_DELAY_MS * 2
                                             ELSE RotateShortDelayMs), LAMBDA s2 :
        IF s1.reconnectTimer = NoTimer
        THEN [s2 EXCEPT !.scheduled.rotated = TRUE] ELSE s2)))

rotateVersionAndReconnect(s) ==
    Let((s.tryingIndex + 1) % Len(s.MC_VERSIONS), LAMBDA idx :
    Let([s EXCEPT !.tryingIndex = idx, !.rejectedVersion = s.attemptVersion], LAMBDA s1 :
    Let(scheduleReconnect(s1, IF idx = 0 THEN s.RECONNECT_DELAY_MS * 2
                                             ELSE RotateShortDelayMs), LAMBDA s2 :
        IF s1.reconnectTimer = NoTimer
        THEN [s2 EXCEPT !.scheduled.rotated = TRUE] ELSE s2)))

(* --------------------------- runtime id -------------------------------- *)
getRuntimeIdRaw(s) == IF s.client = NoClient THEN NoRid ELSE s.rid

\* BigInt conversion of the raw id: null stays null, a failed conversion is
\* caught and gives null, a number keeps its value
getRuntimeId(s) ==
    Let(getRuntimeIdRaw(s), LAMBDA id :
        IF id = NoRid THEN NoRid
        ELSE IF id = BadRid THEN NoRid
        ELSE id)

\* JavaScript truthiness of a BigInt-or-null: null and 0n are falsy
Truthy(r) == r # NoRid /\ r # 0

(* ------------------------ terminal event handlers ---------------------- *)
IsTimeout(msg) == Includes(msg, "ping timed out") \/ Includes(msg, "timed out")

IsErrorMismatch(msg) ==
    \/ Includes(msg, "outdated_client") \/ Includes(msg, "outdated_server")
    \/ Includes(msg, "unsupported") \/ Includes(msg, "unsupported protocol")
    \/ Includes(msg, "unsupported version")

IsDisconnectMismatch(reason) ==
    Includes(reason, "outdated_server") \/ Includes(reason, "outdated_client")

\* the tail shared by the handlers: teardown, then exit or retry
closeThenRetryOrExit(s) ==
    Let(safeCloseClient(s), LAMBDA s1 :
        IF s1.RECONNECT_MODE = "exit" THEN shutdown(s1, 1)
        ELSE scheduleReconnect(s1, s1.RECONNECT_DELAY_MS))

closeThenRotate(s) ==
    Let(safeCloseClient(s), LAMBDA s1 : rotateVersionAndReconnect(s1))

onError(s, msg) ==
    IF IsTimeout(msg) THEN closeThenRetryOrExit(s)
    ELSE IF IsErrorMismatch(msg) THEN closeThenRotate(s)
    ELSE closeThenRetryOrExit(s)

\* (packet && (packet.reason || packet) + '').toLowerCase()
\* a null/undefined packet has no toLowerCase: the handler throws a TypeError
disconnectThrows(ev) == ev.kind = "null"

disconnectReason(ev) == IF ev.kind \in {"reason", "string"} THEN ev.text ELSE {}

onDisconnect(s, ev) ==
    IF IsDisconnectMismatch(disconnectReason(ev)) THEN closeThenRotate(s)
    ELSE closeThenRetryOrExit(s)

onEnd(s) == closeThenRetryOrExit(s)

onClose(s) == closeThenRetryOrExit(s)

HandlerThrows(ev) == ev.name = "disconnect" /\ disconnectThrows(ev)

Handle(s, ev) ==
    CASE ev.name = "error" -> onError(s, ev.text)
      [] ev.name = "disconnect" -> onDisconnect(s, ev)
      [] ev.name = "end" -> onEnd(s)
      [] ev.name = "close" -> onClose(s)
      [] OTHER -> s

\* an event emitted by the event loop: a throwing handler is an uncaught fault
Deliver(s, ev) ==
    Let([s EXCEPT !.lastEvent = ev], LAMBDA s1 :
        IF HandlerThrows(ev) THEN uncaughtException(s1) ELSE Handle(s1, ev))

\* client.queue(...) inside try/catch.  The client is an event emitter: the
\* call may emit a terminal event before it returns (ev), whose handler then
\* runs inside the caller; a fault thrown by that handler is caught by the
\* caller's catch.
queue(s, packet, ev, during) ==
    Let([s EXCEPT !.sent = @ \cup {packet}], LAMBDA s0 :
        IF ev = NoEvent \/ s0.client \notin s0.listeners \/ HandlerThrows(ev) THEN s0
        ELSE Let([s0 EXCEPT !.lastEvent = [ev EXCEPT !.during = during]], LAMBDA s1 :
                 Handle(s1, ev)))

(* ------------------------------ sending -------------------------------- *)
\* a packet handed to client.queue: its name, the runtime id it carries and
\* the position and heading it carries (NoPlace for a packet without one)
NoPlace == [x |-> 0, y |-> -1, z |-> 0, pitch |-> 0, yaw |-> 0]
Packet(name, id, at) == [name |-> name, runtime_id |-> id, at |-> at]

\* the position is recorded before the packet is queued
sendMove(s, newPos, ev, during) ==
    Let(getRuntimeId(s), LAMBDA id :
        IF ~Truthy(id) THEN s
        ELSE Let([s EXCEPT !.pos = newPos], LAMBDA s1 :
                 queue(s1, Packet("move_player", id, s1.pos), ev, during)))

sendJump(s, ev, during) ==
    Let(getRuntimeId(s), LAMBDA id :
        IF ~Truthy(id) THEN s
        ELSE queue(s, Packet("animate", id, NoPlace), ev, during))

\* the chat packet carries no runtime id
sendChat(s, ev, during) ==
    IF s.client = NoClient THEN s
    ELSE queue(s, Packet("text", NoRid, NoPlace), ev, during)

(* ------------------------------ patrol --------------------------------- *)
\* Math.random() in quarters: r stands for r / RandomDen
RandomDen == 4
\* Math.random() * 360
YawOf(r) == (r * 360) \div RandomDen
\* (Math.random() * 20) - 10
PitchOf(r) == (r * 20) \div RandomDen - 10

\* configuration of the activity timers (defaults)
PATROL_STEP_SEC_MIN == 3
PATROL_STEP_SEC_MAX == 6
PATROL_TURN_SEC_MIN == 15
PATROL_TURN_SEC_MAX == 30
\* the default is 180000 + floor(random * 120000), drawn once at load
CHAT_INTERVAL_MS == 180000
ChatJitterMs == 30000

\* (MIN + Math.random() * (MAX - MIN)) * 1000
StepDelayMs(r) ==
    ((PATROL_STEP_SEC_MIN * RandomDen + r * (PATROL_STEP_SEC_MAX - PATROL_STEP_SEC_MIN))
        * 1000) \div RandomDen
TurnDelayMs(r) ==
    ((PATROL_TURN_SEC_MIN * RandomDen + r * (PATROL_TURN_SEC_MAX - PATROL_TURN_SEC_MIN))
        * 1000) \div RandomDen
\* CHAT_INTERVAL_MS + Math.floor(Math.random() * 30000)
ChatDelayMs(r) == CHAT_INTERVAL_MS + (r * ChatJitterMs) \div RandomDen

\* chooseStepDirection: the four choices derived from the current heading
chooseStepDirection(s, choice) ==
    Let(s.pos.yaw, LAMBDA yawDeg :
        CASE choice = 1 -> [dx |-> Sin(yawDeg), dz |-> Cos(yawDeg)]
          [] choice = 2 -> [dx |-> -Sin(yawDeg), dz |-> -Cos(yawDeg)]
          [] choice = 3 -> [dx |-> Cos(yawDeg), dz |-> -Sin(yawDeg)]
          [] choice = 4 -> [dx |-> -Cos(yawDeg), dz |-> Sin(yawDeg)])

\* the move of 0.8 block along (pos - base) / d: away from base
WalkBack_Away(s, base) ==
    Let(dist3(s.pos, base), LAMBDA d :
    Let([x |-> Quot((s.pos.x - base.x) * WalkBackLen, d),
         z |-> Quot((s.pos.z - base.z) * WalkBackLen, d)], LAMBDA move :
        [x |-> s.pos.x + move.x, y |-> s.pos.y, z |-> s.pos.z + move.z,
         pitch |-> s.pos.pitch, yaw |-> Atan2Deg(-move.x, move.z)]))

\* the move back toward base: 0.8 block along (base - pos) / d in x and z
WalkBack(s, base) ==
    Let(dist3(s.pos, base), LAMBDA d :
    Let([x |-> Quot((base.x - s.pos.x) * WalkBackLen, d),
         z |-> Quot((base.z - s.pos.z) * WalkBackLen, d)], LAMBDA move :
        [x |-> s.pos.x + move.x, y |-> s.pos.y, z |-> s.pos.z + move.z,
         pitch |-> s.pos.pitch, yaw |-> Atan2Deg(-move.x, move.z)]))

\* the candidate step: len along the chosen direction
Candidate(s, len, choice) ==
    Let(chooseStepDirection(s, choice), LAMBDA dirVec :
        [x |-> s.pos.x + dirVec.dx * len, y |-> s.pos.y, z |-> s.pos.z + dirVec.dz * len,
         pitch |-> s.pos.pitch, yaw |-> Atan2Deg(-dirVec.dx, dirVec.dz)])

\* patrolStepOnce without the test of the candidate against the radius
patrolStepOnce_NoRadiusTest(s, len, choice, ev) ==
    IF s.client = NoClient \/ ~Truthy(getRuntimeId(s)) THEN s
    ELSE Let(IF s.spawnPos # NoPos THEN s.spawnPos ELSE Xyz(s.pos), LAMBDA base :
         Let(DistSq(s.pos, base), LAMBDA dd :
             IF dd >= s.MAX_PATROL_DISTANCE * s.MAX_PATROL_DISTANCE /\ dd > 0
             THEN sendMove(s, WalkBack(s, base), ev, "step")
             ELSE sendMove(s, Candidate(s, len, choice), ev, "step")))

\* len, choice: the two Math.random draws (1 or 2 blocks, one of four
\* directions)
patrolStepOnce(s, len, choice, ev) ==
    IF s.client = NoClient \/ ~Truthy(getRuntimeId(s)) THEN s
    ELSE Let(IF s.spawnPos # NoPos THEN s.spawnPos ELSE Xyz(s.pos), LAMBDA base :
         Let(DistSq(s.pos, base), LAMBDA dd :
             IF dd >= s.MAX_PATROL_DISTANCE * s.MAX_PATROL_DISTANCE /\ dd > 0
             THEN sendMove(s, WalkBack(s, base), ev, "step")
             ELSE Let(Candidate(s, len, choice), LAMBDA next :
                      IF DistSq(next, base) > s.MAX_PATROL_DISTANCE * s.MAX_PATROL_DISTANCE
                      THEN s
                      ELSE sendMove(s, next, ev, "step"))))

\* scheduleNextPatrolStep that repeats the period of the timer it replaces
scheduleNextPatrolStep_FixedPeriod(s, r) ==
    Let(safeClearTimeout(s, s.patrolStepTimer), LAMBDA s1 :
    Let(NewTimer(s1, "step", IF s.patrolStepTimer # NoTimer THEN s.patrolStepTimer.delay
                                                             ELSE StepDelayMs(r)), LAMBDA t :
        [s1 EXCEPT !.patrolStepTimer = t, !.pending = @ \cup {t}]))

\* r: the Math.random draw of the delay
scheduleNextPatrolStep(s, r) ==
    Let(safeClearTimeout(s, s.patrolStepTimer), LAMBDA s1 :
    Let(NewTimer(s1, "step", StepDelayMs(r)), LAMBDA t :
        [s1 EXCEPT !.patrolStepTimer = t, !.pending = @ \cup {t}]))

\* yaw, pitch: the two Math.random draws; the heading is recorded, then the
\* packet is queued
patrolTurnOnce(s, yaw, pitch, ev) ==
    IF s.client = NoClient \/ ~Truthy(getRuntimeId(s)) THEN s
    ELSE Let([s EXCEPT !.pos.yaw = yaw, !.pos.pitch = pitch], LAMBDA s1 :
             queue(s1, Packet("move_player", getRuntimeId(s1), s1.pos), ev, "turn"))

scheduleNextPatrolTurn(s, r) ==
    Let(safeClearTimeout(s, s.patrolTurnTimer), LAMBDA s1 :
    Let(NewTimer(s1, "turn", TurnDelayMs(r)), LAMBDA t :
        [s1 EXCEPT !.patrolTurnTimer = t, !.pending = @ \cup {t}]))

\* chatLoop's try block without its runtime-id test
chatLoopBody_NoIdTest(s, ev1, jump, ev2) ==
    IF s.client = NoClient THEN s
    ELSE Let(sendChat(s, ev1, "chat"), LAMBDA s1 :
             IF s1.proc = "running" /\ jump THEN sendJump(s1, ev2, "chat") ELSE s1)

\* body of chatLoop's try block
chatLoopBody(s, ev1, jump, ev2) ==
    IF s.client = NoClient \/ ~Truthy(getRuntimeId(s)) THEN s
    ELSE Let(sendChat(s, ev1, "chat"), LAMBDA s1 :
             IF s1.proc = "running" /\ jump THEN sendJump(s1, ev2, "chat") ELSE s1)

\* chatLoop's finally block
chatLoopRearm(s, r) ==
    Let(NewTimer(s, "chat", ChatDelayMs(r)), LAMBDA t :
        [s EXCEPT !.chatTimer = t, !.pending = @ \cup {t}])

(* ---------------------- human behaviour start -------------------------- *)
\* the position seed shared by the start_game handler and startHumanBehavior:
\* a usable position p sets the coordinates and, while the anchor is null,
\* the anchor
\* the seed without the null test on the anchor
seed_Overwrites(s, p) ==
    IF p = NoPos THEN s
    ELSE Let([s EXCEPT !.pos.x = p.x, !.pos.y = p.y, !.pos.z = p.z], LAMBDA s1 :
             [s1 EXCEPT !.spawnPos = Xyz(s1.pos)])

seed(s, p) ==
    IF p = NoPos THEN s
    ELSE Let([s EXCEPT !.pos.x = p.x, !.pos.y = p.y, !.pos.z = p.z], LAMBDA s1 :
             IF s1.spawnPos = NoPos THEN [s1 EXCEPT !.spawnPos = Xyz(s1.pos)] ELSE s1)

\* lines 365-375: seed from client.startGameData, then fall back to the
\* recorded position for a null anchor
seedAtSpawn(s) ==
    Let(seed(s, s.startGameData), LAMBDA s1 :
        IF s1.spawnPos = NoPos THEN [s1 EXCEPT !.spawnPos = Xyz(s1.pos)] ELSE s1)

\* startHumanBehavior without the reset of the attempt counter
startHumanBehavior_NoReset(s, rs, rt) ==
    IF s.client = NoClient THEN s
    ELSE Let(seedAtSpawn(s), LAMBDA s0 :
         Let(scheduleNextPatrolStep(s0, rs), LAMBDA s2 :
         Let(scheduleNextPatrolTurn(s2, rt), LAMBDA s3 :
         Let(safeClearTimeout(s3, s3.chatTimer), LAMBDA s4 :
         Let(NewTimer(s4, "chat", CHAT_INTERVAL_MS), LAMBDA t :
             [s4 EXCEPT !.chatTimer = t, !.pending = @ \cup {t}])))))

\* startHumanBehavior that goes back to the first candidate on a spawn
startHumanBehavior_ResetsIndex(s, rs, rt) ==
    IF s.client = NoClient THEN s
    ELSE Let(seedAtSpawn(s), LAMBDA s0 :
         Let([s0 EXCEPT !.reconnectAttempts = 0, !.scheduled = NoSchedule,
                        !.tryingIndex = 0], LAMBDA s1 :
         Let(scheduleNextPatrolStep(s1, rs), LAMBDA s2 :
         Let(scheduleNextPatrolTurn(s2, rt), LAMBDA s3 :
         Let(safeClearTimeout(s3, s3.chatTimer), LAMBDA s4 :
         Let(NewTimer(s4, "chat", CHAT_INTERVAL_MS), LAMBDA t :
             [s4 EXCEPT !.chatTimer = t, !.pending = @ \cup {t}]))))))

startHumanBehavior(s, rs, rt) ==
    IF s.client = NoClient THEN s
    ELSE Let(seedAtSpawn(s), LAMBDA s0 :
         Let([s0 EXCEPT !.reconnectAttempts = 0, !.scheduled = NoSchedule], LAMBDA s1 :
         Let(scheduleNextPatrolStep(s1, rs), LAMBDA s2 :
         Let(scheduleNextPatrolTurn(s2, rt), LAMBDA s3 :
         Let(safeClearTimeout(s3, s3.chatTimer), LAMBDA s4 :
         Let(NewTimer(s4, "chat", CHAT_INTERVAL_MS), LAMBDA t :
             [s4 EXCEPT !.chatTimer = t, !.pending = @ \cup {t}]))))))

\* 'start_game': the client library stores the packet (runtime id and
\* position) before the script's handler seeds the position from it
onStartGame(s, id, p) ==
    Let([s EXCEPT !.rid = id, !.startGameData = p], LAMBDA s1 : seed(s1, p))

onSpawn(s, rs, rt) ==
    Let(startHumanBehavior(s, rs, rt), LAMBDA s1 :
        IF s1.keepAliveTimer = NoTimer
        THEN Let(NewTimer(s1, "keepalive", 0), LAMBDA t :
                 [s1 EXCEPT !.keepAliveTimer = t, !.pending = @ \cup {t}])
        ELSE s1)

(* ------------------------------ connect -------------------------------- *)
FreshHandle(s) ==
    Let(s.listeners \cup { t.owner : t \in s.pending } \cup {s.client}, LAMBDA used :
        Smallest((1..(Cardinality(used) + 1)) \ used))

\* connectWithCurrentVersion without the teardown of the previous session
connectWithCurrentVersion_NoTeardown(s, outcome) ==
    Let([s EXCEPT !.attemptVersion = currentVersion(s),
                  !.rejectedVersion = NoVersion], LAMBDA s2 :
        IF outcome.throws
        THEN rotateVersionAndReconnect(
                 [s2 EXCEPT !.lastEvent.kind = "throw", !.lastEvent.text = outcome.text])
        ELSE Let(FreshHandle(s2), LAMBDA h :
                 [s2 EXCEPT !.client = h, !.listeners = @ \cup {h}, !.rid = NoRid,
                            !.startGameData = NoPos]))

\* outcome: what bedrock.createClient does; the catch block logs the thrown
\* error and rotates whatever its text
connectWithCurrentVersion(s, outcome) ==
    Let(safeCloseClient(s), LAMBDA s1 :
    Let([s1 EXCEPT !.attemptVersion = currentVersion(s1),
                   !.rejectedVersion = NoVersion], LAMBDA s2 :
        IF outcome.throws
        THEN rotateVersionAndReconnect(
                 [s2 EXCEPT !.lastEvent.kind = "throw", !.lastEvent.text = outcome.text])
        ELSE Let(FreshHandle(s2), LAMBDA h :
                 [s2 EXCEPT !.client = h, !.listeners = @ \cup {h}, !.rid = NoRid,
                            !.startGameData = NoPos])))

(* ------------------------------ startup -------------------------------- *)
\* the script from its first line to its last: the configuration is read
\* from the environment and tested, then the first attempt is made
load(s, outcome) ==
    Let([s EXCEPT !.MC_HOST = HostFromEnv(s.env),
                  !.MC_PORT = PortFromEnv(s.env),
                  !.MC_VERSIONS = VersionsFromEnv(s.env)], LAMBDA s1 :
        IF s1.MC_HOST = "" \/ s1.MC_PORT.nan
        THEN [s1 EXCEPT !.proc = "exited", !.exitCode = 1]
        ELSE connectWithCurrentVersion(
                 [s1 EXCEPT !.proc = "running", !.tryingIndex = 0], outcome))

(* ------------------- interval variant (lines 517-892) ------------------ *)
\* The second script of src/index.js keeps the same variables and handlers
\* but arms its activity timers with setInterval, has no attempt counter and
\* does not clear the retry timer at teardown.  An interval stays armed after
\* its callback has run.

\* lines 577-589: stopHumanBehavior, the liveness interval, the client
safeCloseClientIv(s) ==
    Let(stopHumanBehavior(s), LAMBDA s1 :
    Let(IF s1.keepAliveTimer # NoTimer
        THEN [s1 EXCEPT !.pending = @ \ {s1.keepAliveTimer}, !.keepAliveTimer = NoTimer]
        ELSE s1, LAMBDA s2 :
        IF s2.client # NoClient
        THEN [s2 EXCEPT !.listeners = @ \ {s2.client},
                        !.client = NoClient,
                        !.rid = NoRid,
                        !.startGameData = NoPos]
        ELSE s2))

shutdownIv(s, code) ==
    Let(safeCloseClientIv(s), LAMBDA s1 :
        [s1 EXCEPT !.proc = "exited", !.exitCode = code])

\* the delay is used as given
scheduleReconnectIv(s, delay) ==
    IF s.reconnectTimer # NoTimer THEN s
    ELSE Let(NewTimer(s, "reconnect", delay), LAMBDA t :
             [s EXCEPT !.reconnectTimer = t, !.pending = @ \cup {t}])

rotateVersionAndReconnectIv(s) ==
    Let((s.tryingIndex + 1) % Len(s.MC_VERSIONS), LAMBDA idx :
    Let([s EXCEPT !.tryingIndex = idx, !.rejectedVersion = s.attemptVersion], LAMBDA s1 :
        scheduleReconnectIv(s1, IF idx = 0 THEN s.RECONNECT_DELAY_MS * 2
                                           ELSE RotateShortDelayMs)))

closeThenRetryOrExitIv(s) ==
    Let(safeCloseClientIv(s), LAMBDA s1 :
        IF s1.RECONNECT_MODE = "exit" THEN shutdownIv(s1, 1)
        ELSE scheduleReconnectIv(s1, s1.RECONNECT_DELAY_MS))

closeThenRotateIv(s) ==
    Let(safeCloseClientIv(s), LAMBDA s1 : rotateVersionAndReconnectIv(s1))

\* the four terminal handlers, lines 841-888
HandleIv(s, ev) ==
    CASE ev.name = "error" ->
             IF IsTimeout(ev.text) THEN closeThenRetryOrExitIv(s)
             ELSE IF IsErrorMismatch(ev.text) THEN closeThenRotateIv(s)
             ELSE closeThenRetryOrExitIv(s)
      [] ev.name = "disconnect" ->
             IF IsDisconnectMismatch(disconnectReason(ev)) THEN closeThenRotateIv(s)
             ELSE closeThenRetryOrExitIv(s)
      [] OTHER -> closeThenRetryOrExitIv(s)

DeliverIv(s, ev) ==
    Let([s EXCEPT !.lastEvent = ev], LAMBDA s1 :
        IF HandlerThrows(ev) THEN shutdownIv(s1, 1) ELSE HandleIv(s1, ev))

\* the id is used as the client holds it, without conversion
getRuntimeIdIv(s) == IF s.client = NoClient THEN NoRid ELSE s.rid

sendMoveIv(s, newPos) ==
    Let(getRuntimeIdIv(s), LAMBDA id :
        IF ~Truthy(id) THEN s
        ELSE Let([s EXCEPT !.pos = newPos], LAMBDA s1 :
                 [s1 EXCEPT !.sent = @ \cup {Packet("move_player", id, s1.pos)}]))

\* len, choice, r: the Math.random draws (step length, direction, and the
\* heading used when pos.yaw is 0).  The walk back divides by the distance,
\* which is not 0 where the patrol radius is not 0.
patrolStep(s, len, choice, r) ==
    IF s.client = NoClient \/ ~Truthy(getRuntimeIdIv(s)) THEN s
    ELSE Let(IF s.spawnPos # NoPos THEN s.spawnPos ELSE Xyz(s.pos), LAMBDA base :
             IF DistSq(s.pos, base) >= s.MAX_PATROL_DISTANCE * s.MAX_PATROL_DISTANCE
             THEN sendMoveIv(s, WalkBack(s, base))
             ELSE Let(Candidate([s EXCEPT !.pos.yaw = IF s.pos.yaw # 0 THEN s.pos.yaw
                                                                        ELSE YawOf(r)],
                                len, choice), LAMBDA next :
                      IF DistSq(next, base) > s.MAX_PATROL_DISTANCE * s.MAX_PATROL_DISTANCE
                      THEN s
                      ELSE sendMoveIv(s, next)))

patrolTurn(s, yaw, pitch) ==
    IF s.client = NoClient \/ ~Truthy(getRuntimeIdIv(s)) THEN s
    ELSE Let([s EXCEPT !.pos.yaw = yaw, !.pos.pitch = pitch], LAMBDA s1 :
             [s1 EXCEPT !.sent = @ \cup {Packet("move_player", getRuntimeIdIv(s1), s1.pos)}])

sendChatIv(s) ==
    IF s.client = NoClient THEN s
    ELSE [s EXCEPT !.sent = @ \cup {Packet("text", NoRid, NoPlace)}]

sendJumpIv(s) ==
    IF s.client = NoClient \/ ~Truthy(getRuntimeIdIv(s)) THEN s
    ELSE [s EXCEPT !.sent = @ \cup {Packet("animate", getRuntimeIdIv(s), NoPlace)}]

\* the chat interval's callback, lines 782-787
chatTick(s, jump) ==
    IF s.client = NoClient \/ ~Truthy(getRuntimeIdIv(s)) THEN s
    ELSE Let(sendChatIv(s), LAMBDA s1 : IF jump THEN sendJumpIv(s1) ELSE s1)

\* setInterval into a variable, whatever the variable holds
ArmInterval(s, kind, delay) ==
    Let(NewTimer(s, kind, delay), LAMBDA t :
        CASE kind = "step" -> [s EXCEPT !.patrolStepTimer = t, !.pending = @ \cup {t}]
          [] kind = "turn" -> [s EXCEPT !.patrolTurnTimer = t, !.pending = @ \cup {t}]
          [] kind = "chat" -> [s EXCEPT !.chatTimer = t, !.pending = @ \cup {t}])

\* lines 759-788: seed, then three setInterval calls
startHumanBehaviorIv(s, rs, rt) ==
    IF s.client = NoClient THEN s
    ELSE Let(seedAtSpawn(s), LAMBDA s0 :
         Let(ArmInterval(s0, "step", StepDelayMs(rs)), LAMBDA s1 :
         Let(ArmInterval(s1, "turn", TurnDelayMs(rt)), LAMBDA s2 :
             ArmInterval(s2, "chat", CHAT_INTERVAL_MS))))

onSpawnIv(s, rs, rt) ==
    Let(startHumanBehaviorIv(s, rs, rt), LAMBDA s1 :
        IF s1.keepAliveTimer = NoTimer
        THEN Let(NewTimer(s1, "keepalive", 0), LAMBDA t :
                 [s1 EXCEPT !.keepAliveTimer = t, !.pending = @ \cup {t}])
        ELSE s1)

connectWithCurrentVersionIv(s, outcome) ==
    Let(safeCloseClientIv(s), LAMBDA s1 :
    Let([s1 EXCEPT !.attemptVersion = currentVersion(s1),
                   !.rejectedVersion = NoVersion], LAMBDA s2 :
        IF outcome.throws
        THEN rotateVersionAndReconnectIv(
                 [s2 EXCEPT !.lastEvent.kind = "throw", !.lastEvent.text = outcome.text])
        ELSE Let(FreshHandle(s2), LAMBDA h :
                 [s2 EXCEPT !.client = h, !.listeners = @ \cup {h}, !.rid = NoRid,
                            !.startGameData = NoPos])))

(* ------------------ single-version variant (part_001) ------------------ *)
\* src/unnamed/part_001 knows one version (MC_VERSION) and retries after
\* RETRY_INTERVAL_MS, held here in RECONNECT_DELAY_MS.  Its retry timer is
\* not kept in a variable.  Beside the markers a text is drawn with, extra
\* holds the further substrings the script tests that the text contains.
ExtraMarkers == {"version", "ping timeout"}

\* lines 45-60: the liveness interval, then the client
safeCloseClientP1(s) ==
    Let(IF s.keepAliveTimer # NoTimer
        THEN [s EXCEPT !.pending = @ \ {s.keepAliveTimer}, !.keepAliveTimer = NoTimer]
        ELSE s, LAMBDA s1 :
        IF s1.client # NoClient
        THEN [s1 EXCEPT !.listeners = @ \ {s1.client}, !.client = NoClient]
        ELSE s1)

shutdownP1(s, code) ==
    Let(safeCloseClientP1(s), LAMBDA s1 :
        [s1 EXCEPT !.proc = "exited", !.exitCode = code])

\* setTimeout(startClient, RETRY_INTERVAL_MS), unless the mode is 'exit'
retryOrExitP1(s) ==
    IF s.RECONNECT_MODE = "exit" THEN shutdownP1(s, 1)
    ELSE Let(NewTimer(s, "reconnect", s.RECONNECT_DELAY_MS), LAMBDA t :
             [s EXCEPT !.pending = @ \cup {t}])

IsUnsupportedVersionP1(msg, extra) ==
    /\ Includes(msg, "unsupported")
    /\ Includes(msg, "unsupported version") \/ "version" \in extra

handleConnectFailure(s, msg, extra) ==
    IF IsUnsupportedVersionP1(msg, extra) THEN shutdownP1(s, 1)
    ELSE retryOrExitP1([s EXCEPT !.connecting = FALSE])

startClient(s, outcome, extra) ==
    IF s.connecting THEN s
    ELSE Let([s EXCEPT !.connecting = TRUE], LAMBDA s1 :
             IF outcome.throws
             THEN handleConnectFailure(
                      [s1 EXCEPT !.connecting = FALSE, !.lastEvent.kind = "throw",
                                 !.lastEvent.text = outcome.text], outcome.text, extra)
             ELSE Let(FreshHandle(s1), LAMBDA h :
                      [s1 EXCEPT !.client = h, !.listeners = @ \cup {h}]))

onSpawnP1(s) ==
    Let([s EXCEPT !.connecting = FALSE], LAMBDA s1 :
        IF s1.keepAliveTimer = NoTimer
        THEN Let(NewTimer(s1, "keepalive", 0), LAMBDA t :
                 [s1 EXCEPT !.keepAliveTimer = t, !.pending = @ \cup {t}])
        ELSE s1)

\* the handlers of lines 126-179; the 'close' handler only logs
HandleP1(s, ev, extra) ==
    CASE ev.name = "close" -> s
      [] ev.name = "error" /\ ~IsTimeout(ev.text) /\ ~("ping timeout" \in extra)
                           /\ IsUnsupportedVersionP1(ev.text, extra) ->
             Let(safeCloseClientP1(s), LAMBDA s1 :
                 shutdownP1([s1 EXCEPT !.connecting = FALSE], 1))
      [] OTHER ->
             Let(safeCloseClientP1(s), LAMBDA s1 :
                 retryOrExitP1([s1 EXCEPT !.connecting = FALSE]))

(* ------------------------------ bounds --------------------------------- *)
StartAttempts == {0, AttemptCap - NearCap}

Bounded(s) ==
    /\ \/ s.reconnectAttempts <= MaxAttempts
       \/ s.reconnectAttempts >= AttemptCap - NearCap
    /\ Cardinality(s.pending) <= MaxPending

Assign(s) ==
    /\ Bounded(s)
    /\ client' = s.client
    /\ listeners' = s.listeners
    /\ rid' = s.rid
    /\ keepAliveTimer' = s.keepAliveTimer
    /\ reconnectTimer' = s.reconnectTimer
    /\ patrolStepTimer' = s.patrolStepTimer
    /\ patrolTurnTimer' = s.patrolTurnTimer
    /\ chatTimer' = s.chatTimer
    /\ pending' = s.pending
    /\ tryingIndex' = s.tryingIndex
    /\ reconnectAttempts' = s.reconnectAttempts
    /\ proc' = s.proc
    /\ exitCode' = s.exitCode
    /\ MC_VERSIONS' = s.MC_VERSIONS
    /\ RECONNECT_MODE' = s.RECONNECT_MODE
    /\ RECONNECT_DELAY_MS' = s.RECONNECT_DELAY_MS
    /\ scheduled' = s.scheduled
    /\ pos' = s.pos
    /\ spawnPos' = s.spawnPos
    /\ startGameData' = s.startGameData
    /\ MAX_PATROL_DISTANCE' = s.MAX_PATROL_DISTANCE
    /\ sent' = s.sent
    /\ scope' = s.scope
    /\ env' = s.env
    /\ MC_HOST' = s.MC_HOST
    /\ MC_PORT' = s.MC_PORT
    /\ connecting' = s.connecting
    /\ attemptVersion' = s.attemptVersion
    /\ rejectedVersion' = s.rejectedVersion
    /\ attemptsBefore' = reconnectAttempts
    /\ lastEvent' = s.lastEvent

\* the callback's result, computed once, becomes the next state
Commit(v) == \E s \in {v} : Assign(s)

Tick(name) == Ev(name, "none", {})

\* the state a callback named by ev starts from
Begin(ev) == [Cur EXCEPT !.lastEvent = ev, !.sent = {}]

Starts(s) ==
    /\ client = s.client
    /\ listeners = s.listeners
    /\ rid = s.rid
    /\ keepAliveTimer = s.keepAliveTimer
    /\ reconnectTimer = s.reconnectTimer
    /\ patrolStepTimer = s.patrolStepTimer
    /\ patrolTurnTimer = s.patrolTurnTimer
    /\ chatTimer = s.chatTimer
    /\ pending = s.pending
    /\ tryingIndex = s.tryingIndex
    /\ reconnectAttempts = s.reconnectAttempts
    /\ proc = s.proc
    /\ exitCode = s.exitCode
    /\ MC_VERSIONS = s.MC_VERSIONS
    /\ RECONNECT_MODE = s.RECONNECT_MODE
    /\ RECONNECT_DELAY_MS = s.RECONNECT_DELAY_MS
    /\ scheduled = s.scheduled
    /\ pos = s.pos
    /\ spawnPos = s.spawnPos
    /\ startGameData = s.startGameData
    /\ MAX_PATROL_DISTANCE = s.MAX_PATROL_DISTANCE
    /\ sent = s.sent
    /\ scope = s.scope
    /\ env = s.env
    /\ MC_HOST = s.MC_HOST
    /\ MC_PORT = s.MC_PORT
    /\ connecting = s.connecting
    /\ attemptVersion = s.attemptVersion
    /\ rejectedVersion = s.rejectedVersion
    /\ lastEvent = s.lastEvent

\* the script has run to its last line: the first connection attempt is made
Init ==
    \E versions \in VersionLists, mode \in Modes, delay \in BaseDelays,
       a \in StartAttempts, outcome \in CreateOutcomes :
      \E s \in { connectWithCurrentVersion(
                     [Boot(versions, mode, delay) EXCEPT !.reconnectAttempts = a], outcome) } :
            /\ Starts(s)
            /\ attemptsBefore = a

\* the same under one retry configuration, with the patrol free to move
InitPatrol ==
    \E s \in { connectWithCurrentVersion(
                   [Boot(<<"A">>, "retry", DefaultReconnectDelayMs)
                       EXCEPT !.MAX_PATROL_DISTANCE = PatrolRadius,
                              !.scope = "patrol"], Returns) } :
        /\ Starts(s)
        /\ attemptsBefore = 0

\* the script has not run yet: only the environment is fixed
InitStartup ==
    \E e \in Envs :
        \E s \in { [Boot(<<>>, "retry", DefaultReconnectDelayMs)
                       EXCEPT !.env = e,
                              !.MC_HOST = "",
                              !.MC_PORT = NaN,
                              !.MC_VERSIONS = <<>>,
                              !.proc = "loading",
                              !.scope = "startup"] } :
            /\ Starts(s)
            /\ attemptsBefore = 0

\* one retry configuration, the patrol held at its anchor, the timer delays
\* free to vary
InitTimers ==
    \E s \in { connectWithCurrentVersion(
                   [Boot(<<"A">>, "retry", DefaultReconnectDelayMs)
                       EXCEPT !.scope = "timers"], Returns) } :
        /\ Starts(s)
        /\ attemptsBefore = 0

\* the interval variant after its last line (892), patrol radius one block
InitInterval ==
    \E mode \in Modes, outcome \in CreateOutcomes :
        \E s \in { connectWithCurrentVersionIv(
                       [Boot(<<"A", "B">>, mode, DefaultReconnectDelayMs)
                           EXCEPT !.MAX_PATROL_DISTANCE = PatrolRadius,
                                  !.scope = "interval"], outcome) } :
            /\ Starts(s)
            /\ attemptsBefore = 0

\* part_001 after its last line (197)
InitSingle ==
    \E mode \in Modes, delay \in {30000, DefaultReconnectDelayMs},
       outcome \in {Returns} \cup { Throws(m) : m \in Messages },
       extra \in SUBSET ExtraMarkers :
        \E s \in { startClient([Boot(<<"A">>, mode, delay) EXCEPT !.scope = "single"],
                               outcome, extra) } :
            /\ Starts(s)
            /\ attemptsBefore = 0

(* ------------------------------ inputs --------------------------------- *)
\* what the peer and Math.random supply, per scope
\* (patrol scope: the positions whose distance from the anchor is a whole
\* number of grid units)
Seeds == IF scope = "patrol"
         THEN { p \in PatrolSeeds : p = NoPos \/ spawnPos = NoPos \/ OnAxis(p, spawnPos) }
         ELSE {Xyz(DefaultPos)}
TurnYaws == { YawOf(r) : r \in IF scope = "patrol" THEN {1, 2} ELSE {0} }
TurnPitches == { PitchOf(r) : r \in IF scope = "patrol" THEN {3} ELSE {2} }
StepChoices == IF scope = "patrol" THEN StepLens \X (1..4) ELSE {<<PosScale, 1>>}
PeerEvents == IF scope = "patrol" THEN {Ev("close", "none", {})} ELSE TerminalEvents
QueueEvents == IF scope = "patrol" THEN {NoEvent} ELSE SyncEvents
Outcomes == IF scope = "patrol" THEN {Returns} ELSE CreateOutcomes
\* the Math.random draws of the timer delays, in quarters
DelayDraws == IF scope = "timers" THEN {0, RandomDen - 1} ELSE {0}

(* ------------------------------ actions -------------------------------- *)
Live == proc = "running" /\ client # NoClient /\ client \in listeners

\* 'start_game': the client learns its runtime id and its position
StartGame ==
    /\ Live
    /\ \E r \in RidValues, p \in Seeds :
        Commit(onStartGame(Begin(Tick("start_game")), r, p))

Spawn ==
    /\ Live
    /\ \E rs \in DelayDraws, rt \in DelayDraws :
        Commit(onSpawn(Begin(Tick("spawn")), rs, rt))

Text ==
    /\ Live
    /\ Commit(Begin(Tick("text")))

TerminalEvent ==
    /\ Live
    /\ \E ev \in PeerEvents : Commit(Deliver([Cur EXCEPT !.sent = {}], ev))

\* the retry timer's callback
reconnectCallback(s, outcome) ==
    Let([s EXCEPT !.reconnectTimer = NoTimer], LAMBDA s1 :
        connectWithCurrentVersion(s1, outcome))

ReconnectFire ==
    /\ proc = "running"
    /\ \E t \in pending, outcome \in Outcomes :
        /\ t.kind = "reconnect"
        /\ Commit(reconnectCallback(
                     [Begin(Tick("reconnect")) EXCEPT !.pending = @ \ {t}], outcome))

\* the step timer's callback
patrolStepCallback(s, len, choice, ev, r) ==
    Let(patrolStepOnce(s, len, choice, ev), LAMBDA s1 :
        IF s1.proc = "running" THEN scheduleNextPatrolStep(s1, r) ELSE s1)

PatrolStepFire ==
    /\ proc = "running"
    /\ \E t \in pending, draw \in StepChoices, ev \in QueueEvents, r \in DelayDraws :
        /\ t.kind = "step"
        /\ Commit(patrolStepCallback(
                     [Begin(Tick("step")) EXCEPT !.pending = @ \ {t}],
                     draw[1], draw[2], ev, r))

\* the turn timer's callback
patrolTurnCallback(s, yaw, pitch, ev, r) ==
    Let(patrolTurnOnce(s, yaw, pitch, ev), LAMBDA s1 :
        IF s1.proc = "running" THEN scheduleNextPatrolTurn(s1, r) ELSE s1)

PatrolTurnFire ==
    /\ proc = "running"
    /\ \E t \in pending, yaw \in TurnYaws, pitch \in TurnPitches, ev \in QueueEvents,
          r \in DelayDraws :
        /\ t.kind = "turn"
        /\ Commit(patrolTurnCallback(
                     [Begin(Tick("turn")) EXCEPT !.pending = @ \ {t}], yaw, pitch, ev, r))

chatLoop(s, ev1, jump, ev2, r) ==
    Let(chatLoopBody(s, ev1, jump, ev2), LAMBDA s1 :
        IF s1.proc = "running" THEN chatLoopRearm(s1, r) ELSE s1)

ChatFire ==
    /\ proc = "running"
    /\ \E t \in pending, ev1 \in QueueEvents, jump \in BOOLEAN,
          ev2 \in QueueEvents, r \in DelayDraws :
        /\ t.kind = "chat"
        /\ Commit(chatLoop(
                     [Begin(Tick("chat")) EXCEPT !.pending = @ \ {t}], ev1, jump, ev2, r))

\* the liveness interval only logs; an interval stays armed
KeepAliveFire ==
    /\ proc = "running"
    /\ \E t \in pending :
        /\ t.kind = "keepalive"
        /\ Commit(Begin(Tick("keepalive")))

\* SIGTERM / SIGINT
Signal ==
    /\ proc = "running"
    /\ Commit(shutdown(Begin(Tick("signal")), 0))

\* node runs the script
Load ==
    /\ proc = "loading"
    /\ Commit(load(Begin(Tick("load")), Returns))

(* ----------------------- actions, interval variant --------------------- *)
IvSpawn ==
    /\ Live
    /\ \E rs \in DelayDraws, rt \in DelayDraws :
        Commit(onSpawnIv(Begin(Tick("spawn")), rs, rt))

IvTerminalEvent ==
    /\ Live
    /\ \E ev \in PeerEvents : Commit(DeliverIv([Cur EXCEPT !.sent = {}], ev))

IvReconnectFire ==
    /\ proc = "running"
    /\ \E t \in pending, outcome \in Outcomes :
        /\ t.kind = "reconnect"
        /\ Commit(connectWithCurrentVersionIv(
                     [Begin(Tick("reconnect")) EXCEPT !.pending = @ \ {t},
                                                      !.reconnectTimer = NoTimer], outcome))

\* an interval fires and stays armed
IvPatrolStepFire ==
    /\ proc = "running"
    /\ \E t \in pending, draw \in StepChoices, r \in DelayDraws :
        /\ t.kind = "step"
        /\ Commit(patrolStep(Begin(Tick("step")), draw[1], draw[2], r))

IvPatrolTurnFire ==
    /\ proc = "running"
    /\ \E t \in pending, yaw \in TurnYaws, pitch \in TurnPitches :
        /\ t.kind = "turn"
        /\ Commit(patrolTurn(Begin(Tick("turn")), yaw, pitch))

IvChatFire ==
    /\ proc = "running"
    /\ \E t \in pending, jump \in BOOLEAN :
        /\ t.kind = "chat"
        /\ Commit(chatTick(Begin(Tick("chat")), jump))

IvSignal ==
    /\ proc = "running"
    /\ Commit(shutdownIv(Begin(Tick("signal")), 0))

(* ------------------------- actions, part_001 --------------------------- *)
P1Spawn ==
    /\ Live
    /\ Commit(onSpawnP1(Begin(Tick("spawn"))))

P1TerminalEvent ==
    /\ Live
    /\ \E ev \in TerminalEvents, extra \in SUBSET ExtraMarkers :
        Commit(HandleP1([Cur EXCEPT !.sent = {}, !.lastEvent = ev], ev, extra))

P1RetryFire ==
    /\ proc = "running"
    /\ \E t \in pending, outcome \in {Returns} \cup { Throws(m) : m \in Messages },
          extra \in SUBSET ExtraMarkers :
        /\ t.kind = "reconnect"
        /\ Commit(startClient([Begin(Tick("reconnect")) EXCEPT !.pending = @ \ {t}],
                              outcome, extra))

P1Signal ==
    /\ proc = "running"
    /\ Commit(shutdownP1(Begin(Tick("signal")), 0))

Next ==
    \/ StartGame
    \/ Spawn
    \/ Text
    \/ TerminalEvent
    \/ ReconnectFire
    \/ PatrolStepFire
    \/ PatrolTurnFire
    \/ ChatFire
    \/ KeepAliveFire
    \/ Signal

NextStartup == Load

\* the start_game and text handlers and the liveness interval are the same
\* code in the interval variant
NextInterval ==
    \/ StartGame
    \/ IvSpawn
    \/ Text
    \/ IvTerminalEvent
    \/ IvReconnectFire
    \/ IvPatrolStepFire
    \/ IvPatrolTurnFire
    \/ IvChatFire
    \/ KeepAliveFire
    \/ IvSignal

\* the text handler and the liveness interval only log, as in the main script
NextSingle ==
    \/ P1Spawn
    \/ Text
    \/ P1TerminalEvent
    \/ P1RetryFire
    \/ KeepAliveFire
    \/ P1Signal

Spec == Init /\ [][Next]_vars

SpecPatrol == InitPatrol /\ [][Next]_vars

SpecTimers == InitTimers /\ [][Next]_vars

SpecStartup == InitStartup /\ [][NextStartup]_vars

SpecInterval == InitInterval /\ [][NextInterval]_vars

SpecSingle == InitSingle /\ [][NextSingle]_vars

(* ------------------------------ typing --------------------------------- *)
TypeOK ==
    /\ client \in 0..3
    /\ proc \in {"loading", "running", "exited"}
    /\ tryingIndex \in 0..(Len(MC_VERSIONS) - 1)
    /\ reconnectTimer = NoTimer \/ reconnectTimer.kind = "reconnect"

(* ------------------------------ readings ------------------------------- *)
Tokens(kind) == { t \in pending : t.kind = kind }

ActivityKinds == {"step", "turn", "chat"}

ActivityTokens == { t \in pending : t.kind \in ActivityKinds }

RetryPending == reconnectTimer # NoTimer /\ reconnectTimer \in pending

AllNull(s) ==
    /\ s.patrolStepTimer = NoTimer
    /\ s.patrolTurnTimer = NoTimer
    /\ s.chatTimer = NoTimer
    /\ s.keepAliveTimer = NoTimer
    /\ s.reconnectTimer = NoTimer
    /\ s.client = NoClient

\* delays scheduleReconnect is called with
CallDelays == {RECONNECT_DELAY_MS, RECONNECT_DELAY_MS * 2, RotateShortDelayMs}

(* ------------------------------ C1 ------------------------------------- *)
\* C1: at most one retry timer is pending in every reachable state, it is the
\* one reconnectTimer holds, and scheduleReconnect called while it is pending
\* changes nothing (no second timer, attempt counter untouched).
C1_SingleRetryTimer ==
    /\ Cardinality(Tokens("reconnect")) <= 1
    /\ Tokens("reconnect") = (IF reconnectTimer = NoTimer THEN {} ELSE {reconnectTimer})
    /\ reconnectTimer # NoTimer =>
          \A d \in CallDelays : scheduleReconnect(Cur, d) = Cur

\* a terminal event has scheduled a retry, which is pending
C1_Witness ==
    /\ lastEvent.name \in TerminalNames
    /\ RetryPending
    /\ reconnectAttempts = attemptsBefore + 1

(* ------------------------------ C2 ------------------------------------- *)
\* handles that have handlers attached or own an armed activity/liveness timer
SessionsInUse ==
    listeners \cup ({ t.owner : t \in ActivityTokens \cup Tokens("keepalive") } \ {NoClient})

\* C2: at most one session exists: only the current handle has handlers
\* attached or timers armed, and when a handle is live no timer armed before
\* its creation is still pending.
C2_OneSession ==
    /\ Cardinality(SessionsInUse) <= 1
    /\ SessionsInUse \subseteq {client} \ {NoClient}
    /\ client # NoClient =>
          \A t \in ActivityTokens \cup Tokens("keepalive") : t.owner = client

\* a retry has produced a new live session, the only one with handlers
C2_Witness ==
    /\ lastEvent.name = "reconnect"
    /\ client # NoClient
    /\ listeners = {client}
    /\ reconnectAttempts >= 1
    /\ pending = {}

(* ------------------------------ C3 ------------------------------------- *)
\* C3: in exit mode no retry timer is ever created, and every terminal event
\* (and a failed createClient) ends in teardown and process exit with code 1.
C3_ExitModeExits ==
    RECONNECT_MODE = "exit" =>
        /\ reconnectTimer = NoTimer
        /\ Tokens("reconnect") = {}
        /\ lastEvent.name \in TerminalNames =>
              (proc = "exited" /\ exitCode = 1 /\ AllNull(Cur))

(* ------------------------------ C4 ------------------------------------- *)
\* a step in which rotateVersionAndReconnect ran
Rotates ==
    /\ rejectedVersion' # NoVersion
    /\ rejectedVersion = NoVersion \/ lastEvent'.name = "reconnect"

\* a step that makes the connection attempt following a rotation
AttemptAfterRotation ==
    /\ rejectedVersion # NoVersion
    /\ lastEvent'.name = "reconnect"

IndexAdvances == tryingIndex' = (tryingIndex + 1) % Len(MC_VERSIONS)

\* C4 as stated: every rotation advances the index by one modulo the list
\* length, and the attempt after a rotation uses a candidate different from
\* the rejected one unless the list has length 1.
C4_RotationChangesCandidate ==
    [][ /\ Rotates => IndexAdvances
        /\ AttemptAfterRotation =>
              (attemptVersion' # rejectedVersion \/ Len(MC_VERSIONS) = 1) ]_vars

\* position in the list of the candidate a rotation to tryingIndex gave up on
PrevIndex == (tryingIndex + Len(MC_VERSIONS) - 1) % Len(MC_VERSIONS)

\* C4 amended: every rotation advances the index by one modulo the list
\* length, the attempt after a rotation uses the candidate at the advanced
\* index, and that candidate differs from the rejected one whenever the list
\* holds different names at the two positions.
C4_RotationAdvancesIndex ==
    [][ /\ Rotates => IndexAdvances
        /\ AttemptAfterRotation =>
              /\ attemptVersion' = MC_VERSIONS[tryingIndex + 1]
              /\ MC_VERSIONS[PrevIndex + 1] # MC_VERSIONS[tryingIndex + 1]
                    => attemptVersion' # rejectedVersion ]_vars

\* a mismatch rotated from the first candidate to a different second one,
\* and the retry has attempted the second
C4_Witness ==
    /\ lastEvent.name = "reconnect"
    /\ tryingIndex = 1
    /\ MC_VERSIONS = <<"A", "B">>
    /\ attemptVersion = "B"
    /\ client # NoClient

(* ------------------------------ C5 ------------------------------------- *)
\* C5: in retry mode every terminal event delivered to the live session
\* leaves the process running with a retry timer pending (which, once it
\* fires, makes the new connection attempt).
C5_TerminalEventSchedulesRetry ==
    (RECONNECT_MODE = "retry" /\ lastEvent.name \in TerminalNames) =>
        (proc = "running" /\ RetryPending)

(* ------------------------------ C6 ------------------------------------- *)
\* C6: in retry mode a disconnect, whatever its payload (reason string,
\* packet without reason, null/undefined), never takes the process-fatal
\* path: the process does not exit with code 1.
C6_DisconnectNeverFatal ==
    (RECONNECT_MODE = "retry" /\ lastEvent.name = "disconnect") =>
        ~(proc = "exited" /\ exitCode = 1)

(* ------------------------------ C7 ------------------------------------- *)
\* C7: teardown applied in any reachable state leaves the activity timers,
\* the liveness timer, the retry timer and the handle null and nothing
\* armed; applied again, or applied when no session exists, it changes
\* nothing.
C7_TeardownIdempotent ==
    /\ \E s1 \in {safeCloseClient(Cur)} :
          /\ AllNull(s1)
          /\ s1.pending = {}
          /\ s1.listeners = {}
          /\ safeCloseClient(s1) = s1
    /\ (AllNull(Cur) /\ pending = {}) => safeCloseClient(Cur) = Cur
    /\ proc = "exited" => (AllNull(Cur) /\ pending = {})

\* a spawned session with the liveness timer and all three activity timers armed
C7_Witness ==
    /\ client # NoClient
    /\ keepAliveTimer \in pending
    /\ patrolStepTimer \in pending
    /\ patrolTurnTimer \in pending
    /\ chatTimer \in pending

(* ------------------------------ C8 ------------------------------------- *)
\* C8: with no live handle, the step, turn, chat and liveness timers are all
\* unarmed.
C8_NoTimersWithoutSession ==
    client = NoClient =>
        /\ ActivityTokens = {}
        /\ Tokens("keepalive") = {}
        /\ patrolStepTimer = NoTimer
        /\ patrolTurnTimer = NoTimer
        /\ chatTimer = NoTimer
        /\ keepAliveTimer = NoTimer

(* ------------------------------ C9 ------------------------------------- *)
\* C9: while a retry timer is pending no session handle is live and none of
\* the three activity timers is armed.
C9_RetryExcludesActivity ==
    Tokens("reconnect") # {} => (client = NoClient /\ ActivityTokens = {})

(* ------------------------------ C10 ------------------------------------ *)
\* C10: the attempt counter is reset to zero by a spawn confirmation and by
\* nothing else: every other callback leaves it unchanged or increases it,
\* and it never exceeds its cap.
C10_AttemptCounter ==
    [][ /\ lastEvent'.name = "spawn" => reconnectAttempts' = 0
        /\ lastEvent'.name # "spawn" => reconnectAttempts' >= reconnectAttempts
        /\ reconnectAttempts <= AttemptCap
        /\ reconnectAttempts' <= AttemptCap ]_vars

\* a spawn confirmation has just reset a counter that failures had raised
C10_Witness ==
    /\ lastEvent.name = "spawn"
    /\ attemptsBefore > 0
    /\ reconnectAttempts = 0

(* ------------------------------ C11 ------------------------------------ *)
\* a step in which a terminal event's handler scheduled a retry of the same
\* candidate (the transient and the unclassified branches)
SchedulesPlainRetry ==
    /\ lastEvent'.name \in TerminalNames
    /\ reconnectTimer' # NoTimer
    /\ ~scheduled'.rotated

\* the retry logged before this step was a plain one and no spawn has reset
\* the counter since
FollowsPlainRetry ==
    /\ scheduled # NoSchedule
    /\ ~scheduled.rotated
    /\ scheduled.attempt = reconnectAttempts

\* C11: in retry mode, when plain (transient or unclassified) failures repeat
\* with no spawn in between, the retry attempts the same candidate again and
\* each scheduled delay is the previous one plus 5 s, held at the cap: it
\* never decreases.
C11_SameCandidateGrowingDelay ==
    [][ RECONNECT_MODE = "retry" =>
          /\ (SchedulesPlainRetry /\ FollowsPlainRetry) =>
                /\ scheduled'.delay = Min(scheduled.delay + AttemptStepMs, DelayCapMs)
                /\ scheduled'.delay >= scheduled.delay
                /\ scheduled'.attempt = Min(scheduled.attempt + 1, AttemptCap)
                /\ tryingIndex' = tryingIndex
          /\ (lastEvent'.name = "reconnect" /\ FollowsPlainRetry) =>
                attemptVersion' = attemptVersion ]_vars

\* two timeouts in a row on the first candidate: the second retry waits the
\* base delay plus two increments
C11_Witness ==
    /\ RECONNECT_MODE = "retry"
    /\ lastEvent.name = "error"
    /\ "timed out" \in lastEvent.text
    /\ MC_VERSIONS = <<"A", "B">>
    /\ tryingIndex = 0
    /\ attemptVersion = "A"
    /\ ~scheduled.rotated
    /\ scheduled.attempt = 2
    /\ scheduled.delay = RECONNECT_DELAY_MS + 2 * AttemptStepMs
    /\ scheduled.delay < DelayCapMs

(* ------------------------------ C12 ------------------------------------ *)
\* C12: a plain retry is scheduled after base delay + min(attempts * 5 s, cap):
\* the cap bounds the increment only, so the delay is never below the
\* configured base delay.
C12_DelayAtLeastBase ==
    (scheduled # NoSchedule /\ ~scheduled.rotated) =>
        /\ scheduled.delay = RECONNECT_DELAY_MS
                               + Min(scheduled.attempt * AttemptStepMs, DelayCapMs)
        /\ scheduled.delay >= RECONNECT_DELAY_MS

(* ------------------------------ C13 ------------------------------------ *)
\* C13: a rotation that wraps the index to 0 schedules the next attempt after
\* exactly twice the base delay, any other rotation after exactly 1 s,
\* whatever the number of failed attempts.
C13_RotationDelayFixed ==
    (scheduled # NoSchedule /\ scheduled.rotated) =>
        scheduled.delay = (IF tryingIndex = 0 THEN RECONNECT_DELAY_MS * 2
                                              ELSE RotateShortDelayMs)

(* ------------------------------ C14 ------------------------------------ *)
\* the delay a rotation schedules from the torn-down current state when the
\* index stands at i
RotationDelayFrom(i) ==
    rotateVersionAndReconnect(
        [safeCloseClient(Cur) EXCEPT !.tryingIndex = i]).scheduled.delay

\* C14: at every attempt count and base delay, a rotation that wraps the
\* index to 0 schedules a strictly longer delay than one that does not wrap.
C14_FullCycleLonger ==
    Len(MC_VERSIONS) = 2 => RotationDelayFrom(1) > RotationDelayFrom(0)

(* ------------------------------ C15 ------------------------------------ *)
\* the retry callback's state had createClient returned a client and that
\* client then reported the failure text as an 'error' event
AsErrorEvent(text) ==
    onError(reconnectCallback([Cur EXCEPT !.pending = @ \ {reconnectTimer},
                                          !.lastEvent = Tick("reconnect")], Returns),
            text)

\* C15: a createClient that throws is handled as an 'error' event with the
\* same text would be: same candidate index, same exit or retry, same attempt
\* counter and same retry delay.
C15_ThrowHandledAsError ==
    [][ (lastEvent'.name = "reconnect" /\ lastEvent'.kind = "throw") =>
          \E e \in { AsErrorEvent(lastEvent'.text) } :
              /\ tryingIndex' = e.tryingIndex
              /\ proc' = e.proc
              /\ exitCode' = e.exitCode
              /\ reconnectAttempts' = e.reconnectAttempts
              /\ (reconnectTimer' = NoTimer) = (e.reconnectTimer = NoTimer)
              /\ reconnectTimer'.delay = e.reconnectTimer.delay ]_vars

(* ------------------------------ C16 ------------------------------------ *)
\* C16: once the anchor is non-null no callback changes it, whatever seeds,
\* spawns, teardowns and reconnects follow.
C16_AnchorSetOnce ==
    [][ spawnPos # NoPos => spawnPos' = spawnPos ]_vars

\* a session opened by a retry has been seeded away from the anchor an
\* earlier session fixed
C16_Witness ==
    /\ lastEvent.name = "start_game"
    /\ scheduled # NoSchedule
    /\ spawnPos = NearSeed
    /\ startGameData = FarSeed
    /\ Xyz(pos) = FarSeed

(* ------------------------------ C17 ------------------------------------ *)
\* C17: only the start_game handler writes the anchor, and the value written
\* is the position the peer supplied: a spawn confirmation that comes before
\* any peer position leaves the anchor null.
C17_AnchorFromPeerOnly ==
    [][ spawnPos' # spawnPos =>
          /\ lastEvent'.name = "start_game"
          /\ spawnPos' = startGameData'
          /\ spawnPos' # NoPos ]_vars

(* ------------------------------ C18 ------------------------------------ *)
RadiusSq == MAX_PATROL_DISTANCE * MAX_PATROL_DISTANCE

\* the move packets the last callback queued
MovesSent == { m \in sent : m.name = "move_player" }

\* a step tick has run
StepTicked == lastEvent'.name = "step"

C19_SeededAtAnchorStaysInside ==
    (client # NoClient /\ spawnPos # NoPos /\ startGameData = spawnPos) =>
        DistSq(pos, spawnPos) <= RadiusSq

\* in such a session a step tick has walked back from the radius
C19_Witness ==
    /\ lastEvent.name = "step"
    /\ MovesSent # {}
    /\ startGameData = spawnPos
    /\ spawnPos = FarSeed
    /\ dist3(pos, spawnPos) = PatrolRadius - WalkBackLen

(* ------------------------------ C20 ------------------------------------ *)
ActivityTicked == lastEvent'.name \in ActivityKinds

\* C20: a packet is queued only by a callback that began with the runtime id
\* known, and a packet that carries an id carries that one; a step, turn or
\* chat tick that begins without it queues nothing and leaves the recorded
\* position and heading unchanged.
C20_NothingSentWithoutId ==
    [][ /\ sent' # {} =>
              /\ getRuntimeId(Cur) # NoRid
              /\ \A m \in sent' : m.name # "text" => m.runtime_id = getRuntimeId(Cur)
        /\ (ActivityTicked /\ getRuntimeId(Cur) = NoRid) =>
              /\ sent' = {}
              /\ pos' = pos ]_vars

\* a chat tick found a live session whose runtime id cannot be read and
\* sent nothing
C20_Witness ==
    /\ lastEvent.name = "chat"
    /\ client # NoClient
    /\ rid = BadRid
    /\ sent = {}
    /\ chatTimer \in pending

(* ------------------------------ C21 ------------------------------------ *)
\* a failure text that signals a version mismatch and nothing else
SignalsMismatch(text) == IsErrorMismatch(text) /\ ~IsTimeout(text)

\* the three outcomes of a terminal event
EndsInExit == proc' = "exited"
EndsInRotation ==
    /\ proc' = "running"
    /\ reconnectTimer' # NoTimer
    /\ scheduled'.rotated
EndsInPlainRetry ==
    /\ proc' = "running"
    /\ reconnectTimer' # NoTimer
    /\ ~scheduled'.rotated
    /\ tryingIndex' = tryingIndex

\* C21: a terminal event whose text signals an unsupported protocol or
\* version, or an outdated client or server, rotates the candidate index,
\* whether it arrives as an 'error' or as a 'disconnect' reason; and every
\* terminal event ends in a plain retry, a rotation or an exit.
C21_MismatchAlwaysRotates ==
    [][ lastEvent'.name \in TerminalNames =>
          /\ SignalsMismatch(lastEvent'.text) => (EndsInRotation /\ IndexAdvances)
          /\ EndsInExit \/ EndsInRotation \/ EndsInPlainRetry ]_vars

(* ------------------------------ C22 ------------------------------------ *)
\* C22: the process exits only through teardown: the step that exits leaves
\* no handle, no handlers and no timer, a signal exits with code 0 and a
\* fault thrown by a handler with code 1; once exited nothing is live.
C22_ExitAfterTeardown ==
    [][ /\ (proc = "running" /\ proc' = "exited") =>
              /\ AllNull(Cur')
              /\ pending' = {}
              /\ listeners' = {}
              /\ lastEvent'.name = "signal" => exitCode' = 0
              /\ HandlerThrows(lastEvent') => exitCode' = 1
        /\ proc = "exited" => (AllNull(Cur) /\ pending = {} /\ listeners = {}) ]_vars

\* a signal has ended a process while the session opened after a rotation was
\* spawned (the counter the rotation raised is back at zero) with its timers
\* armed
C22_Witness ==
    /\ lastEvent.name = "signal"
    /\ proc = "exited"
    /\ exitCode = 0
    /\ tryingIndex = 1
    /\ reconnectAttempts = 0
    /\ attemptsBefore = 0
    /\ pending = {}
    /\ client = NoClient

(* ------------------------------ C23 ------------------------------------ *)
\* a connection attempt has been made
Attempted == client # NoClient \/ attemptVersion # NoVersion \/ reconnectTimer # NoTimer

HostValid == MC_HOST # ""
\* a positive whole number
PortValid == ~MC_PORT.nan /\ MC_PORT.tenths = 0 /\ MC_PORT.whole > 0

\* C23: a connection attempt is made only with a non-empty host, a port that
\* is a positive whole number and a non-empty candidate list; once the script
\* has run with a missing or invalid host or port the process has exited
\* with a non-zero code, with no attempt made and no retry armed.
C23_AttemptNeedsValidConfig ==
    /\ Attempted => (HostValid /\ PortValid /\ Len(MC_VERSIONS) > 0)
    /\ (proc # "loading" /\ ~(HostValid /\ PortValid)) =>
          /\ proc = "exited"
          /\ exitCode > 0
          /\ ~Attempted
          /\ pending = {}

(* ------------------------------ C24 ------------------------------------ *)
\* a step in which a retry was scheduled: by a terminal event's handler, or
\* by the catch of a createClient that threw
SchedulesRetry ==
    /\ reconnectTimer' # NoTimer
    /\ \/ lastEvent'.name \in TerminalNames
       \/ lastEvent'.name = "reconnect" /\ lastEvent'.kind = "throw"

\* the delay the scheduling call was given
CalledWith ==
    IF scheduled'.rotated
    THEN (IF tryingIndex' = 0 THEN RECONNECT_DELAY_MS * 2 ELSE RotateShortDelayMs)
    ELSE RECONNECT_DELAY_MS

\* C24: every retry that is scheduled, plain or rotation, raises the attempt
\* counter by exactly one up to its cap, and the armed delay is computed from
\* the counter after that increment.
C24_CounterFeedsDelay ==
    [][ SchedulesRetry =>
          /\ reconnectAttempts' = Min(reconnectAttempts + 1, AttemptCap)
          /\ scheduled'.attempt = reconnectAttempts'
          /\ reconnectTimer' \in pending'
          /\ reconnectTimer'.delay =
                Min(CalledWith + reconnectAttempts' * AttemptStepMs, DelayCapMs) ]_vars

\* a rotation to the second candidate scheduled as the second retry in a row:
\* one second plus two increments
C24_Witness ==
    /\ lastEvent.name \in TerminalNames
    /\ scheduled.rotated
    /\ tryingIndex = 1
    /\ attemptsBefore = 1
    /\ reconnectAttempts = 2
    /\ reconnectTimer \in pending
    /\ reconnectTimer.delay = RotateShortDelayMs + 2 * AttemptStepMs

(* ------------------------------ C25 ------------------------------------ *)
\* a step tick, with the runtime id known, taken at the patrol radius or
\* beyond it
StepTickedOutside ==
    /\ StepTicked
    /\ spawnPos # NoPos
    /\ DistSq(pos, spawnPos) >= RadiusSq
    /\ MovesSent' # {}

\* C25: a step tick taken at the patrol radius or beyond it, whatever the
\* height the position was seeded at, leaves the recorded position 0.8 block
\* closer to the anchor (so that repeated ticks bring it back inside the
\* radius).
C25_WalkBackApproaches ==
    [][ StepTickedOutside =>
          dist3(pos', spawnPos) = dist3(pos, spawnPos) - WalkBackLen ]_vars

(* ------------------------------ C26 ------------------------------------ *)
\* the step just emitted travelled len along the 'forward' candidate that
\* chooseStepDirection derives from the yaw it recorded
TravelledAlongYaw(len) ==
    \E forward \in { chooseStepDirection(Cur', 1) } :
        /\ pos'.x - pos.x = len * forward.dx
        /\ pos'.z - pos.z = len * forward.dz

\* C26: the yaw recorded by an emitted step that changed the position
\* denotes, under the (sin, cos) projection the candidate directions are
\* derived with, the direction just travelled, so that a following forward
\* candidate continues in it.
C26_YawDenotesTravel ==
    [][ (StepTicked /\ MovesSent' # {} /\ Xyz(pos') # Xyz(pos)) =>
          \E len \in StepLens \cup {WalkBackLen} : TravelledAlongYaw(len) ]_vars

(* ------------------------------ C27 ------------------------------------ *)
\* C27: a turn tick that begins with the runtime id known queues exactly one
\* packet, a move that carries the recorded position with the new heading;
\* the new yaw is in [0, 360), the new pitch in [-10, 10], and the recorded
\* coordinates and the anchor are unchanged.
C27_TurnRewritesHeadingOnly ==
    [][ (lastEvent'.name = "turn" /\ getRuntimeId(Cur) # NoRid) =>
          /\ Cardinality(sent') = 1
          /\ \A m \in sent' :
                /\ m.name = "move_player"
                /\ m.runtime_id = getRuntimeId(Cur)
                /\ m.at = pos'
          /\ pos'.yaw >= 0 /\ pos'.yaw < 360
          /\ pos'.pitch >= -10 /\ pos'.pitch <= 10
          /\ Xyz(pos') = Xyz(pos)
          /\ spawnPos' = spawnPos ]_vars

(* ------------------------------ C28 ------------------------------------ *)
\* every Math.random draw, in quarters
AllDraws == 0..(RandomDen - 1)

\* exactly one timer of the kind is armed, the one the variable holds, and
\* its delay lies between lo and hi
ArmedOnce(kind, timer, lo, hi) ==
    /\ Tokens(kind) = {timer}
    /\ timer.delay >= lo
    /\ timer.delay <= hi

\* C28: while a session is live, a step or turn tick leaves exactly one timer
\* of its kind armed, with a delay inside the configured range that is set by
\* the draw made at the re-arm and not by the delay before it; a chat tick,
\* skipped or not, leaves exactly one chat timer armed.
C28_RearmedOnceWithFreshDelay ==
    [][ client' # NoClient =>
          /\ lastEvent'.name = "step" =>
                /\ ArmedOnce("step", patrolStepTimer,
                             PATROL_STEP_SEC_MIN * 1000, PATROL_STEP_SEC_MAX * 1000)'
                /\ \A r \in AllDraws :
                      scheduleNextPatrolStep(Cur', r).patrolStepTimer.delay = StepDelayMs(r)
          /\ lastEvent'.name = "turn" =>
                /\ ArmedOnce("turn", patrolTurnTimer,
                             PATROL_TURN_SEC_MIN * 1000, PATROL_TURN_SEC_MAX * 1000)'
                /\ \A r \in AllDraws :
                      scheduleNextPatrolTurn(Cur', r).patrolTurnTimer.delay = TurnDelayMs(r)
          /\ lastEvent'.name = "chat" =>
                ArmedOnce("chat", chatTimer,
                          CHAT_INTERVAL_MS, CHAT_INTERVAL_MS + ChatJitterMs)' ]_vars

\* a chat tick skipped for want of a runtime id has re-armed the chat timer
\* with a delay other than the first one, while the step timer waits its
\* shortest delay and the turn timer its longest
C28_Witness ==
    /\ lastEvent.name = "chat"
    /\ client # NoClient
    /\ getRuntimeId(Cur) = NoRid
    /\ sent = {}
    /\ chatTimer \in pending
    /\ chatTimer.delay = ChatDelayMs(RandomDen - 1)
    /\ chatTimer.delay # CHAT_INTERVAL_MS
    /\ patrolStepTimer \in pending
    /\ patrolStepTimer.delay = StepDelayMs(0)
    /\ patrolTurnTimer \in pending
    /\ patrolTurnTimer.delay = TurnDelayMs(RandomDen - 1)
    /\ StepDelayMs(0) # StepDelayMs(RandomDen - 1)

(* ------------------------------ C29 ------------------------------------ *)
TimerKinds == {"step", "turn", "chat", "keepalive"}

\* C29: whatever peer events arrive, repeated spawn confirmations and
\* position notices on one session included, at most one step timer, one turn
\* timer, one chat timer and one liveness timer are armed.
C29_OneTimerOfEachKind ==
    \A kind \in TimerKinds : Cardinality(Tokens(kind)) <= 1

\* a position notice has arrived on a session that had already spawned: all
\* four timers are armed, one of each kind, owned by the live session
C29_Witness ==
    /\ lastEvent.name = "start_game"
    /\ client # NoClient
    /\ \A kind \in TimerKinds :
          /\ Cardinality(Tokens(kind)) = 1
          /\ \A t \in Tokens(kind) : t.owner = client
    /\ Tokens("step") = {patrolStepTimer}
    /\ Tokens("keepalive") = {keepAliveTimer}

(* ------------------------------ C30 ------------------------------------ *)
\* C30 (interval variant): whatever peer events arrive, more than one spawn
\* confirmation on a session included, once the session is torn down no
\* activity timer is armed, and an armed activity timer belongs to the live
\* session.
C30_NoActivityTimerAfterTeardown ==
    /\ client = NoClient => ActivityTokens = {}
    /\ \A t \in ActivityTokens : t.owner = client

(* ------------------------------ C31 ------------------------------------ *)
\* C31 (part_001): in retry mode a socket-closed event delivered to the live
\* session, the session not yet torn down by an error, disconnect or end
\* event, leaves the client torn down and a retry timer armed.
C31_CloseTearsDownAndRetries ==
    [][(/\ Live
        /\ RECONNECT_MODE = "retry"
        /\ lastEvent'.name = "close"
        /\ lastEvent' # lastEvent)
       => (client' = NoClient /\ Tokens("reconnect")' # {})]_vars

(* ------------------------------ C32 ------------------------------------ *)
\* a step that moves the version index, or in which a rotation ran
Advances == Rotates \/ tryingIndex' # tryingIndex

\* C32: no candidate is skipped.  Every advance of the version index arms the
\* retry timer in the same step; a connection attempt has been made since the
\* advance before it (or since the start), and that attempt, the one the
\* advance gives up on, used the candidate the index selected.
C32_NoCandidateSkipped ==
    [][ Advances =>
          /\ IndexAdvances
          /\ reconnectTimer' # NoTimer
          /\ reconnectTimer' \in pending'
          /\ scheduled'.rotated
          /\ rejectedVersion = NoVersion \/ lastEvent'.name = "reconnect"
          /\ rejectedVersion' = MC_VERSIONS[tryingIndex + 1] ]_vars

\* two advances over <<A, B>>: the second one gave up on B, which the retry
\* armed by the first had attempted
C32_Witness ==
    /\ MC_VERSIONS = <<"A", "B">>
    /\ tryingIndex = 0
    /\ rejectedVersion = "B"
    /\ scheduled.rotated
    /\ reconnectTimer \in pending

(* ------------------------------ C33 ------------------------------------ *)
\* a step whose callback handled an 'error' or a 'disconnect' carrying a
\* mismatch text, or a createClient that threw
MayRotate ==
    \/ lastEvent'.name \in {"error", "disconnect"} /\ IsErrorMismatch(lastEvent'.text)
    \/ lastEvent'.name = "reconnect" /\ lastEvent'.kind = "throw"

\* C33: the version index changes only in a step that classifies a protocol
\* mismatch or in which the constructor throws.  A spawn leaves it alone, so
\* do teardown, transient and unclassified failures, exits and timer ticks,
\* and every connection attempt uses the candidate at the index as it stood.
C33_SpawnKeepsCandidate ==
    [][ /\ tryingIndex' # tryingIndex => MayRotate
        /\ lastEvent'.name = "spawn" => tryingIndex' = tryingIndex
        /\ (lastEvent'.name \in TerminalNames /\ ~IsErrorMismatch(lastEvent'.text))
              => tryingIndex' = tryingIndex
        /\ lastEvent'.name = "reconnect" =>
              attemptVersion' = MC_VERSIONS[tryingIndex + 1] ]_vars

\* a session spawned on the second candidate (the counter the rotation had
\* raised went back to 0), failed without a mismatch, and the retry has
\* attempted the second candidate again
C33_Witness ==
    /\ MC_VERSIONS = <<"A", "B">>
    /\ lastEvent.name = "reconnect"
    /\ client # NoClient
    /\ tryingIndex = 1
    /\ attemptVersion = "B"
    /\ reconnectAttempts = 1
    /\ scheduled # NoSchedule
    /\ ~scheduled.rotated

(* ------------------------------ C34 ------------------------------------ *)
\* C34: a rotation that is the first failure since a spawn (or since the
\* start), the attempt counter standing at 0, has rejected one candidate
\* only; with more than one candidate in the list it arms the short rotation
\* delay, never the full-cycle cooldown.
C34_FullCycleNeedsAllRejected ==
    [][ (Rotates /\ reconnectAttempts = 0 /\ Len(MC_VERSIONS) > 1) =>
          /\ reconnectTimer' # NoTimer
          /\ reconnectTimer'.delay =
                Min(RotateShortDelayMs + reconnectAttempts' * AttemptStepMs, DelayCapMs) ]_vars

====
